---- MODULE Spec2Model ----
(***************************************************************************)
(* A model of the EquiGrader backend (src/backend/main.py): the question   *)
(* store, the grading pipeline perform_evaluation, and the endpoints       *)
(* get_question, evaluate_answer and evaluate_audio.                       *)
(*                                                                         *)
(* Numbers.  A JSON/Python number is a record [ty, e]: ty is "int" or      *)
(* "float" and e is the value in eighths (e = 8 * value), so 0.5 is        *)
(* [ty |-> "float", e |-> 4] and 42 is [ty |-> "int", e |-> 336].  Every   *)
(* value used is a dyadic fraction on which Python's float arithmetic of   *)
(* lines 147-152 agrees with exact arithmetic.  ty "str" and "null" are    *)
(* the non-numeric JSON values.                                            *)
(*                                                                         *)
(* Text.  The model's reply is a sequence of tokens: "{", "}", ",", a      *)
(* token of prose "x", and the three members "score", "sum", "rub"         *)
(* standing for "overall_score": v, "final_summary": "Good" and            *)
(* "rubric_evaluation": [..].  A topic is a sequence of characters.        *)
(***************************************************************************)
EXTENDS Integers, Sequences, FiniteSets

VARIABLES
    QUESTION_BANK,   \* main.py:37  the loaded question list
    WHISPER_MODEL,   \* main.py:42-46  TRUE when whisper loaded, FALSE when None
    pc,              \* position of the request being served (grading / topic)
    req,             \* the request being served
    llm,             \* what ollama.chat did for this request
    ollamaCalls,     \* number of ollama.chat calls made for this request
    resp,            \* the response sent for this request
    files,           \* the working directory: path -> content
    rpc,             \* evaluate_audio / get_question: position per request
    rin,             \* per request: its worker, kind and inputs
    rout             \* per request: locals and outcome

vars == <<QUESTION_BANK, WHISPER_MODEL, pc, req, llm, ollamaCalls, resp,
          files, rpc, rin, rout>>

(***************************************************************************)
(* Bounds                                                                  *)
(***************************************************************************)
MaxReplyLen == 4
MaxTopicLen == 3
MaxBank == 2
NumRequests == 2

(***************************************************************************)
(* Numbers                                                                 *)
(***************************************************************************)
IntNum(k) == [ty |-> "int", e |-> 8 * k]
FloatNum(eighths) == [ty |-> "float", e |-> eighths]
StrVal == [ty |-> "str", e |-> 0]
NullVal == [ty |-> "null", e |-> 0]
IsNumber(v) == v.ty \in {"int", "float"}

\* int(x) of a non-negative number x given in eighths
PyInt(eighths) == IntNum(eighths \div 8)

\* The overall_score values the model may write: -1, -0.5, 0, 0.125, 0.5, 1,
\* 1.5, 4, 6, 10, 10.5, 42, 100, 150, a string and null.
ScoreVals ==
    {IntNum(-1), FloatNum(-4), IntNum(0), FloatNum(1), FloatNum(4), IntNum(1),
     FloatNum(12), IntNum(4), IntNum(6), IntNum(10), FloatNum(84), IntNum(42),
     IntNum(100), IntNum(150), StrVal, NullVal}

(***************************************************************************)
(* Question store                                                          *)
(***************************************************************************)
None == [id |-> "None", topic |-> <<>>]

RECURSIVE get_question_by_id_from(_, _, _)
get_question_by_id_from(bank, question_id, i) ==
    IF i > Len(bank) THEN None
    ELSE IF bank[i].id = question_id THEN bank[i]
    ELSE get_question_by_id_from(bank, question_id, i + 1)

get_question_by_id_first(bank, question_id) ==
    IF Len(bank) = 0 THEN None ELSE bank[1]

get_question_by_id(bank, question_id) ==
    get_question_by_id_from(bank, question_id, 1)

(***************************************************************************)
(* Reply extraction: re.search(r'\{[\s\S]*\}') and json.loads              *)
(***************************************************************************)
Tokens == {"{", "}", ",", "x", "score", "sum", "rub"}
Members == {"score", "sum", "rub"}

NoMatch == [matched |-> FALSE, group |-> <<>>]

Positions(s, c) == {i \in 1..Len(s) : s[i] = c}
MinOf(S) == CHOOSE i \in S : \A j \in S : i <= j
MaxOf(S) == CHOOSE i \in S : \A j \in S : j <= i

\* leftmost match of '{', then greedily everything up to the last '}'
re_search(raw) ==
    LET opens == Positions(raw, "{")
        closes == Positions(raw, "}")
    IN IF opens # {} /\ closes # {} /\ MinOf(opens) < MaxOf(closes)
       THEN [matched |-> TRUE,
             group |-> SubSeq(raw, MinOf(opens), MaxOf(closes))]
       ELSE NoMatch

KeyOf(m) ==
    CASE m = "score" -> "overall_score"
      [] m = "sum" -> "final_summary"
      [] m = "rub" -> "rubric_evaluation"

ModelSummary == "Good"
ModelRubric == <<"verdict">>

\* the JSON object grammar: '{' [ member { ',' member } ] '}'
IsJsonObject(s) ==
    /\ Len(s) >= 2
    /\ s[1] = "{"
    /\ s[Len(s)] = "}"
    /\ LET inner == SubSeq(s, 2, Len(s) - 1)
       IN \/ inner = <<>>
          \/ /\ Len(inner) % 2 = 1
             /\ \A i \in 1..Len(inner) :
                    IF i % 2 = 1 THEN inner[i] \in Members ELSE inner[i] = ","

\* A Python dict with the keys of an Evaluation Result: keys is the set of keys
\* present; a field whose key is absent holds a placeholder that is never read.
EmptyDict ==
    [keys |-> {}, overall_score |-> NullVal, final_summary |-> "",
     rubric_evaluation |-> <<>>, transcribed_text |-> <<>>]

\* the dict json.loads builds from the matched text
json_loads(s, scoreVal) ==
    LET present == {KeyOf(s[i]) : i \in {j \in 1..Len(s) : s[j] \in Members}}
    IN [keys |-> present,
        overall_score |-> IF "overall_score" \in present THEN scoreVal ELSE NullVal,
        final_summary |-> IF "final_summary" \in present THEN ModelSummary ELSE "",
        rubric_evaluation |->
            IF "rubric_evaluation" \in present THEN ModelRubric ELSE <<>>,
        transcribed_text |-> <<>>]

\* result.get("overall_score", 0)
dict_get_score(result) ==
    IF "overall_score" \in result.keys THEN result.overall_score ELSE IntNum(0)

(***************************************************************************)
(* perform_evaluation, lines 121-163                                       *)
(***************************************************************************)
FallbackResult ==
    [keys |-> {"overall_score", "final_summary", "rubric_evaluation"},
     overall_score |-> IntNum(70),
     final_summary |-> "Good effort. The AI understood your answer but failed to format the score.",
     rubric_evaluation |-> <<>>,
     transcribed_text |-> <<>>]

SystemErrorResult ==
    [keys |-> {"overall_score", "final_summary", "rubric_evaluation"},
     overall_score |-> IntNum(0),
     final_summary |-> "System Error: Could not evaluate answer.",
     rubric_evaluation |-> <<>>,
     transcribed_text |-> <<>>]

\* a ten-point reading of the second branch: score * 10
NormalizeTenth(score) ==
    IF 0 < score.e /\ score.e <= 8 THEN PyInt(score.e * 100)
    ELSE IF 8 < score.e /\ score.e <= 80
         THEN PyInt(score.e * 10)
    ELSE score

\* lines 147-152 on a number: the two rescaling branches, else unchanged
NormalizeScore(score) ==
    IF 0 < score.e /\ score.e <= 8 THEN PyInt(score.e * 100)
    ELSE IF 8 < score.e /\ score.e <= 80
         THEN LET scaled == PyInt((score.e * 100) \div 5)   \* int((score / 5) * 100)
              IN IF scaled.e > 800 THEN IntNum(100) ELSE scaled
    ELSE score

Returned(result) == [exc |-> "none", value |-> result]
Raised(name) == [exc |-> name, value |-> EmptyDict]

\* the body of the try block, lines 123-155, given what ollama.chat did
TryBody(out) ==
    IF out.kind = "raise" THEN Raised(out.exc)
    ELSE IF out.kind = "nocontent" THEN Raised("KeyError")
    ELSE LET json_match == re_search(out.raw)
         IN IF ~json_match.matched THEN Returned(FallbackResult)
            ELSE IF ~IsJsonObject(json_match.group) THEN Raised("JSONDecodeError")
            ELSE LET result == json_loads(json_match.group, out.score)
                     score == dict_get_score(result)
                 IN IF ~IsNumber(score) THEN Raised("TypeError")
                    ELSE Returned([result EXCEPT
                             !.keys = @ \cup {"overall_score"},
                             !.overall_score = NormalizeScore(score)])

\* line 157: except Exception
CatchesOnlyTransport(exc) == exc \in {"ConnectionError", "TimeoutError"}

Catches(exc) == exc \in {"ConnectionError", "TimeoutError", "KeyError",
                         "JSONDecodeError", "TypeError"}

\* lines 121-163: the try block with its handler
GradeReply(out) ==
    LET r == TryBody(out)
    IN IF r.exc # "none" /\ Catches(r.exc) THEN Returned(SystemErrorResult) ELSE r

(***************************************************************************)
(* Inputs                                                                  *)
(***************************************************************************)
RECURSIVE SeqsUpTo(_, _)
SeqsUpTo(S, n) ==
    IF n = 0 THEN {<<>>}
    ELSE LET shorter == SeqsUpTo(S, n - 1)
         IN shorter \cup {Append(t, c) : t \in shorter, c \in S}

Range(s) == {s[i] : i \in 1..Len(s)}

\* the texts the model may answer with: token sequences of up to MaxReplyLen
Replies == UNION {[1..n -> Tokens] : n \in 0..MaxReplyLen}

NoOutcome == [kind |-> "none", exc |-> "none", raw |-> <<>>, score |-> NullVal]

\* ollama.chat raises, or answers without message/content (lines 123-124)
LlmFailures ==
    {[kind |-> "raise", exc |-> x, raw |-> <<>>, score |-> NullVal] :
        x \in {"ConnectionError", "TimeoutError"}}
    \cup {[kind |-> "nocontent", exc |-> "none", raw |-> <<>>, score |-> NullVal]}

\* ollama.chat answers with the text r; the score value matters only to a
\* reply that holds an overall_score member
ScoresFor(r) == IF "score" \in Range(r) THEN ScoreVals ELSE {NullVal}
LlmReply(r, v) == [kind |-> "reply", exc |-> "none", raw |-> r, score |-> v]

Question(id, topic) == [id |-> id, topic |-> topic]

\* lines 28-35: the parsed file, or [] when reading or parsing fails
load_question_bank(file) == IF file.ok THEN file.content ELSE <<>>

QuestionIds == {"q1", "q2", "q9"}

GradeFiles ==
    {[ok |-> FALSE, content |-> <<>>],
     [ok |-> TRUE,
      content |-> <<Question("q1", <<"E", "C", "E">>), Question("q2", <<"c">>)>>]}

NoRequest == [endpoint |-> "none", question_id |-> "", topic |-> <<>>]
NoResponse ==
    [status |-> 0, detail |-> "", body |-> EmptyDict, question |-> None]

HttpError(code, detail) ==
    [status |-> code, detail |-> detail, body |-> EmptyDict, question |-> None]
Ok(result) ==
    [status |-> 200, detail |-> "", body |-> result, question |-> None]

\* Variables of the other specifications, left alone by this one.
IdleAudio ==
    /\ files = <<>>
    /\ rpc = <<>>
    /\ rin = <<>>
    /\ rout = <<>>

Init ==
    /\ QUESTION_BANK \in {load_question_bank(f) : f \in GradeFiles}
    /\ WHISPER_MODEL = TRUE
    /\ pc = "idle"
    /\ req = NoRequest
    /\ llm = NoOutcome
    /\ ollamaCalls = 0
    /\ resp = NoResponse
    /\ IdleAudio

(***************************************************************************)
(* POST /evaluate_answer, lines 175-178, running perform_evaluation        *)
(***************************************************************************)
\* the request arrives and the handler is entered
ReceiveAnswer ==
    /\ pc = "idle"
    /\ \E id \in QuestionIds :
           req' = [endpoint |-> "evaluate_answer", question_id |-> id, topic |-> <<>>]
    /\ pc' = "resolve"
    /\ llm' = NoOutcome
    /\ ollamaCalls' = 0
    /\ resp' = NoResponse
    /\ UNCHANGED <<QUESTION_BANK, WHISPER_MODEL, files, rpc, rin, rout>>

\* lines 80-82
ResolveQuestion ==
    /\ pc = "resolve"
    /\ IF get_question_by_id(QUESTION_BANK, req.question_id) = None
       THEN /\ resp' = HttpError(404, "Question not found.")
            /\ pc' = "done"
       ELSE /\ resp' = resp
            /\ pc' = "invoke"
    /\ UNCHANGED <<QUESTION_BANK, WHISPER_MODEL, req, llm, ollamaCalls,
                   files, rpc, rin, rout>>

\* line 123: the call to ollama.chat
InvokeModel ==
    /\ pc = "invoke"
    /\ \/ \E out \in LlmFailures : llm' = out
       \/ \E r \in Replies : \E v \in ScoresFor(r) : llm' = LlmReply(r, v)
    /\ ollamaCalls' = ollamaCalls + 1
    /\ pc' = "extract"
    /\ UNCHANGED <<QUESTION_BANK, WHISPER_MODEL, req, resp, files, rpc, rin, rout>>

\* lines 124-163: extraction, normalization, the except clause, the return
ExtractAndNormalize ==
    /\ pc = "extract"
    /\ LET r == GradeReply(llm)
       IN resp' = IF r.exc = "none" THEN Ok(r.value)
                  ELSE HttpError(500, r.exc)
    /\ pc' = "done"
    /\ UNCHANGED <<QUESTION_BANK, WHISPER_MODEL, req, llm, ollamaCalls,
                   files, rpc, rin, rout>>

\* the response has been sent and the handler's frame is gone; the server waits
\* for the next request
Finish ==
    /\ pc = "done"
    /\ pc' = "idle"
    /\ req' = NoRequest
    /\ llm' = NoOutcome
    /\ ollamaCalls' = 0
    /\ resp' = NoResponse
    /\ UNCHANGED <<QUESTION_BANK, WHISPER_MODEL, files, rpc, rin, rout>>

Next ==
    \/ ReceiveAnswer
    \/ ResolveQuestion
    \/ InvokeModel
    \/ ExtractAndNormalize
    \/ Finish

Spec == Init /\ [][Next]_vars

(***************************************************************************)
(* Properties of the grading pipeline, checked under Spec                  *)
(***************************************************************************)
Answered == pc = "done" /\ req.endpoint = "evaluate_answer"

\* the reply holds no '{' followed by a later '}'
NoBracePair(raw) ==
    ~ \E i, j \in 1..Len(raw) : i < j /\ raw[i] = "{" /\ raw[j] = "}"

\* the reply's outermost '{' .. '}' text parses as a JSON object
ParsesAsObject(raw) ==
    \E i, j \in 1..Len(raw) :
        /\ i < j /\ raw[i] = "{" /\ raw[j] = "}"
        /\ \A k \in 1..(i - 1) : raw[k] # "{"
        /\ \A k \in (j + 1)..Len(raw) : raw[k] # "}"
        /\ IsJsonObject(SubSeq(raw, i, j))

\* the overall_score the parsed object holds, 0 when the member is absent
HasScoreMember(raw) ==
    \E i, k, j \in 1..Len(raw) :
        i < k /\ k < j /\ raw[i] = "{" /\ raw[k] = "score" /\ raw[j] = "}"

ParsedScore == IF HasScoreMember(llm.raw) THEN llm.score ELSE IntNum(0)

IsIntIn0To100(v) == v.ty = "int" /\ 0 <= v.e /\ v.e <= 8 * 100

\* C1: whenever perform_evaluation returns a result, its overall_score is an
\* integer in the closed interval [0,100].
C1_ScoreIsIntegerIn0To100 ==
    (Answered /\ resp.status = 200) =>
        /\ "overall_score" \in resp.body.keys
        /\ IsIntIn0To100(resp.body.overall_score)

\* C2: for a known question, a reply with no '{' .. '}' pair, or whose
\* '{' .. '}' text does not parse as JSON, yields exactly the fallback result
\* (overall_score 70, the apologetic summary, an empty rubric list).
C2_MalformedReplyGivesFallback ==
    (Answered /\ llm.kind = "reply" /\ ~ParsesAsObject(llm.raw)) =>
        resp = Ok(FallbackResult)

\* the exceptions of stages 3-4: the call raises, the reply lacks
\* message/content, the matched text is not JSON, the score is not a number
StageFailure ==
    \/ llm.kind \in {"raise", "nocontent"}
    \/ /\ llm.kind = "reply"
       /\ ~NoBracePair(llm.raw)
       /\ (~ParsesAsObject(llm.raw) \/ ~IsNumber(ParsedScore))

C4_ResultIsWellFormed ==
    (Answered /\ resp.status = 200) =>
        {"rubric_evaluation", "overall_score", "final_summary"} \subseteq resp.body.keys

\* C5: an evaluation fails with 404 exactly when question_id matches no
\* question of the store; then the model is never invoked; and 404 is the
\* only error the caller ever sees.
C5_NotFoundIffUnknown ==
    /\ Answered =>
           (resp.status = 404 <=>
               \A i \in 1..Len(QUESTION_BANK) : QUESTION_BANK[i].id # req.question_id)
    /\ resp.status = 404 => ollamaCalls = 0
    /\ Answered => resp.status \in {200, 404}

C5_Witness ==
    /\ Answered
    /\ QUESTION_BANK # <<>>
    /\ resp.status = 404
    /\ ollamaCalls = 0

\* The reply parsed and held a numeric score (or none): normalization ran.
Normalized ==
    /\ Answered
    /\ llm.kind = "reply"
    /\ ParsesAsObject(llm.raw)
    /\ IsNumber(ParsedScore)

Chars == {"E", "e", "C", "c"}

\* str.lower() on one character
LowerChar(c) ==
    CASE c = "E" -> "e"
      [] c = "C" -> "c"
      [] OTHER -> c

str_lower_identity(s) == s

\* str.lower()
str_lower(s) == [i \in 1..Len(s) |-> LowerChar(s[i])]

\* needle in hay
str_contains(hay, needle) ==
    \E k \in 0..(Len(hay) - Len(needle)) :
        SubSeq(hay, k + 1, k + Len(needle)) = needle

\* line 170: the questions whose topic holds the requested one, in bank order
topic_questions(bank, topic) ==
    SelectSeq(bank, LAMBDA q : str_contains(str_lower(q.topic), str_lower(topic)))

StoredTopics == {<<"E", "C", "E">>, <<"E", "c">>, <<"c">>}
BankIds == <<"q1", "q2", "q3", "q4">>

\* question banks of up to MaxBank questions, ids by position
TopicBanks ==
    UNION {{[i \in 1..n |-> Question(BankIds[i], ts[i])] : ts \in [1..n -> StoredTopics]} :
              n \in 0..MaxBank}

TopicFiles ==
    {[ok |-> FALSE, content |-> <<>>]}
    \cup {[ok |-> TRUE, content |-> b] : b \in TopicBanks}

InitTopic ==
    /\ QUESTION_BANK \in {load_question_bank(f) : f \in TopicFiles}
    /\ WHISPER_MODEL = TRUE
    /\ pc = "idle"
    /\ req = NoRequest
    /\ llm = NoOutcome
    /\ ollamaCalls = 0
    /\ resp = NoResponse
    /\ IdleAudio

\* the request arrives and the handler is entered
ReceiveTopic ==
    /\ pc = "idle"
    /\ \E t \in SeqsUpTo(Chars, MaxTopicLen) :
           req' = [endpoint |-> "get_question", question_id |-> "", topic |-> t]
    /\ pc' = "lookup"
    /\ resp' = NoResponse
    /\ UNCHANGED <<QUESTION_BANK, WHISPER_MODEL, llm, ollamaCalls,
                   files, rpc, rin, rout>>

\* lines 170-173: filter, 404 when nothing matches, else random.choice
GetQuestion ==
    /\ pc = "lookup"
    /\ LET found == topic_questions(QUESTION_BANK, req.topic)
       IN IF found = <<>>
          THEN resp' = HttpError(404, "No questions found for this topic.")
          ELSE \E i \in 1..Len(found) :
                   resp' = [status |-> 200, detail |-> "", body |-> EmptyDict,
                            question |-> found[i]]
    /\ pc' = "done"
    /\ UNCHANGED <<QUESTION_BANK, WHISPER_MODEL, req, llm, ollamaCalls,
                   files, rpc, rin, rout>>

NextTopic ==
    \/ ReceiveTopic
    \/ GetQuestion
    \/ Finish

SpecTopic == InitTopic /\ [][NextTopic]_vars

\* two characters that differ at most in case
SameLetter(a, b) == a = b \/ {a, b} \in {{"E", "e"}, {"C", "c"}}

\* the stored topic holds the requested one as a case-insensitive substring
TopicMatches(stored, wanted) ==
    \E k \in 0..(Len(stored) - Len(wanted)) :
        \A j \in 1..Len(wanted) : SameLetter(stored[k + j], wanted[j])

MatchSet ==
    {QUESTION_BANK[i] : i \in {j \in 1..Len(QUESTION_BANK) :
                                   TopicMatches(QUESTION_BANK[j].topic, req.topic)}}

\* C10: get_question responds 404 exactly when no stored topic holds the
\* requested topic as a case-insensitive substring, and otherwise 200 with one
\* question of the match set.
C10_GetQuestionMatches ==
    (pc = "done" /\ req.endpoint = "get_question") =>
        IF MatchSet = {}
        THEN resp.status = 404
        ELSE resp.status = 200 /\ resp.question \in MatchSet

C10_Witness ==
    /\ pc = "done"
    /\ req.endpoint = "get_question"
    /\ req.topic = <<"e", "c">>
    /\ resp.status = 200
    /\ resp.question.topic = <<"E", "C", "E">>
    /\ Cardinality(MatchSet) > 1

(***************************************************************************)
(* POST /evaluate_audio, lines 180-201, served by parallel workers that     *)
(* share the working directory.  Each worker is one process with one event  *)
(* loop: an async handler that never suspends (evaluate_audio awaits only   *)
(* perform_evaluation, which calls ollama.chat synchronously) holds the     *)
(* loop from entry to return; the sync handler get_question runs in the     *)
(* thread pool, entered from and answered through the loop.                 *)
(***************************************************************************)
Reqs == 1..NumRequests
Workers == {"w1", "w2"}
Filenames == {"a.wav", "b.wav"}

\* line 183
temp_path(filename) == <<"temp_", filename>>
Paths == {temp_path(f) : f \in Filenames}

\* A directory entry: the inode is named after the request whose open()
\* created it; data is "" (empty) or the request whose upload it holds.
Absent == [exists |-> FALSE, ino |-> 0, data |-> 0]

\* what the model does for a transcribed answer
AudioLlmOutcomes ==
    {[kind |-> "raise", exc |-> "ConnectionError", raw |-> <<>>, score |-> NullVal],
     [kind |-> "reply", exc |-> "none", raw |-> <<"{", "score", "}">>, score |-> IntNum(4)]}

NewLocals ==
    [path |-> <<>>, fd |-> 0, text |-> <<>>, exists |-> FALSE, status |-> 0,
     body |-> EmptyDict]

InitAudio ==
    /\ QUESTION_BANK \in {load_question_bank(f) : f \in GradeFiles}
    /\ WHISPER_MODEL \in BOOLEAN
    /\ pc = "idle"
    /\ req = NoRequest
    /\ llm = NoOutcome
    /\ ollamaCalls = 0
    /\ resp = NoResponse
    /\ files = [p \in Paths |-> Absent]
    /\ rpc = [r \in Reqs |-> "new"]
    /\ rin = [r \in Reqs |->
                 [kind |-> "none", worker |-> "w1", filename |-> "a.wav",
                  question_id |-> "q1", upload_ok |-> TRUE]]
    /\ rout = [r \in Reqs |-> NewLocals]

Shared == <<QUESTION_BANK, WHISPER_MODEL, pc, req, llm, ollamaCalls, resp>>

InHandler == {"open", "copy", "transcribe", "evaluate", "exists", "remove"}

\* no async handler is running on the worker's event loop
LoopFree(w) ==
    \A o \in Reqs :
        ~(rin[o].worker = w /\ rin[o].kind = "evaluate_audio" /\ rpc[o] \in InHandler)

\* a request reaches a worker and waits for its event loop
Arrive(r) ==
    /\ rpc[r] = "new"
    /\ \E k \in {"evaluate_audio", "get_question"}, w \in Workers,
          f \in Filenames, id \in {"q1", "q9"}, ok \in BOOLEAN :
           rin' = [rin EXCEPT ![r] =
                      [kind |-> k, worker |-> w,
                       filename |-> IF k = "evaluate_audio" THEN f ELSE "a.wav",
                       question_id |-> IF k = "evaluate_audio" THEN id ELSE "q1",
                       upload_ok |-> IF k = "evaluate_audio" THEN ok ELSE TRUE]]
    /\ rpc' = [rpc EXCEPT ![r] = "pending"]
    /\ UNCHANGED <<Shared, files, rout>>

\* the event loop enters the handler; line 183 for evaluate_audio, the hand-over
\* to a pool thread for get_question
EnterRequest(r) ==
    /\ rpc[r] = "pending"
    /\ LoopFree(rin[r].worker)
    /\ IF rin[r].kind = "evaluate_audio"
       THEN /\ rpc' = [rpc EXCEPT ![r] = "open"]
            /\ rout' = [rout EXCEPT ![r].path = temp_path(rin[r].filename)]
       ELSE /\ rpc' = [rpc EXCEPT ![r] = "lookup"]
            /\ rout' = rout
    /\ UNCHANGED <<Shared, files, rin>>

\* get_question in its pool thread, lines 170-173
LookupInThread(r) ==
    /\ rpc[r] = "lookup"
    /\ rout' = [rout EXCEPT ![r].status =
                   IF topic_questions(QUESTION_BANK, <<"c">>) = <<>> THEN 404 ELSE 200]
    /\ rpc' = [rpc EXCEPT ![r] = "reply"]
    /\ UNCHANGED <<Shared, files, rin>>

\* the event loop sends the pool thread's answer
SendReply(r) ==
    /\ rpc[r] = "reply"
    /\ LoopFree(rin[r].worker)
    /\ rpc' = [rpc EXCEPT ![r] = "done"]
    /\ UNCHANGED <<Shared, files, rin, rout>>

\* line 186: open(temp_path, "wb") creates the file or truncates the one there
OpenTemp(r) ==
    /\ rpc[r] = "open"
    /\ LET p == rout[r].path
           ino == IF files[p].exists THEN files[p].ino ELSE r
       IN /\ files' = [files EXCEPT ![p] = [exists |-> TRUE, ino |-> ino, data |-> 0]]
          /\ rout' = [rout EXCEPT ![r].fd = ino]
    /\ rpc' = [rpc EXCEPT ![r] = "copy"]
    /\ UNCHANGED <<Shared, rin>>

\* line 187: shutil.copyfileobj writes the upload through the open descriptor,
\* or fails; the failure leaves the with block and the handler (no try yet)
CopyUpload(r) ==
    /\ rpc[r] = "copy"
    /\ LET p == rout[r].path
       IN IF rin[r].upload_ok
          THEN /\ files' = IF files[p].exists /\ files[p].ino = rout[r].fd
                           THEN [files EXCEPT ![p].data = r]
                           ELSE files
               /\ rpc' = [rpc EXCEPT ![r] = "transcribe"]
               /\ rout' = rout
          ELSE /\ files' = files
               /\ rpc' = [rpc EXCEPT ![r] = "done"]
               /\ rout' = [rout EXCEPT ![r].status = 500]
    /\ UNCHANGED <<Shared, rin>>

\* lines 65-72: the sentinel when whisper is not loaded, else the text of the
\* audio found at the path; a missing or empty file makes transcribe raise
transcribe_audio_to_text(audio_file_path) ==
    IF ~WHISPER_MODEL THEN Returned(<<"Error: Whisper model not loaded.">>)
    ELSE IF ~files[audio_file_path].exists \/ files[audio_file_path].data = 0
         THEN Raised("RuntimeError")
    ELSE Returned(<<"speech of", files[audio_file_path].data>>)

\* line 191, inside the try of line 189
Transcribe(r) ==
    /\ rpc[r] = "transcribe"
    /\ LET t == transcribe_audio_to_text(rout[r].path)
       IN IF t.exc = "none"
          THEN /\ rout' = [rout EXCEPT ![r].text = t.value]
               /\ rpc' = [rpc EXCEPT ![r] = "evaluate"]
          ELSE /\ rout' = [rout EXCEPT ![r].status = 500]
               /\ rpc' = [rpc EXCEPT ![r] = "exists"]
    /\ UNCHANGED <<Shared, files, rin>>

\* lines 194-196: perform_evaluation (lines 80-82, then 121-163) and the
\* transcribed_text field
Evaluate(r) ==
    /\ rpc[r] = "evaluate"
    /\ IF get_question_by_id(QUESTION_BANK, rin[r].question_id) = None
       THEN rout' = [rout EXCEPT ![r].status = 404]
       ELSE \E out \in AudioLlmOutcomes :
                LET g == GradeReply(out)
                IN rout' = [rout EXCEPT
                       ![r].status = IF g.exc = "none" THEN 200 ELSE 500,
                       ![r].body = IF g.exc = "none"
                                   THEN [g.value EXCEPT
                                            !.keys = @ \cup {"transcribed_text"},
                                            !.transcribed_text = rout[r].text]
                                   ELSE EmptyDict]
    /\ rpc' = [rpc EXCEPT ![r] = "exists"]
    /\ UNCHANGED <<Shared, files, rin>>

\* line 200: os.path.exists(temp_path)
CheckExists(r) ==
    /\ rpc[r] = "exists"
    /\ rout' = [rout EXCEPT ![r].exists = files[rout[r].path].exists]
    /\ rpc' = [rpc EXCEPT ![r] = "remove"]
    /\ UNCHANGED <<Shared, files, rin>>

\* line 201: os.remove(temp_path) when the file was seen; it raises when the
\* file is gone by now; then the handler returns
RemoveTemp(r) ==
    /\ rpc[r] = "remove"
    /\ LET p == rout[r].path
       IN IF ~rout[r].exists
          THEN files' = files /\ rout' = rout
          ELSE IF files[p].exists
          THEN files' = [files EXCEPT ![p] = Absent] /\ rout' = rout
          ELSE files' = files /\ rout' = [rout EXCEPT ![r].status = 500]
    /\ rpc' = [rpc EXCEPT ![r] = "done"]
    /\ UNCHANGED <<Shared, rin>>

NextAudio ==
    \/ \E r \in Reqs : Arrive(r)
    \/ \E r \in Reqs : EnterRequest(r)
    \/ \E r \in Reqs : LookupInThread(r)
    \/ \E r \in Reqs : SendReply(r)
    \/ \E r \in Reqs : OpenTemp(r)
    \/ \E r \in Reqs : CopyUpload(r)
    \/ \E r \in Reqs : Transcribe(r)
    \/ \E r \in Reqs : Evaluate(r)
    \/ \E r \in Reqs : CheckExists(r)
    \/ \E r \in Reqs : RemoveTemp(r)

SpecAudio == InitAudio /\ [][NextAudio]_vars

IsAudio(r) == rin[r].kind = "evaluate_audio"

\* C6: on every exit path of evaluate_audio (success, 404, an exception in
\* transcription or grading, a failure while persisting the upload) the
\* temporary file the request created no longer exists when the handler has
\* finished.
C6_TempFileRemovedOnEveryExit ==
    \A r \in Reqs :
        (IsAudio(r) /\ rpc[r] = "done") =>
            ~(files[rout[r].path].exists /\ files[rout[r].path].ino = r)

\* C7: no request's temporary file is overwritten or deleted by another
\* request between the moment it is written and the moment its own
\* transcription has finished, also when both uploads carry the same filename.
C7_OwnTempFileUntilTranscribed ==
    \A r \in Reqs :
        (IsAudio(r) /\ rpc[r] = "transcribe") =>
            (files[rout[r].path].exists /\ files[rout[r].path].data = r)

\* C8: while one evaluate_audio request is inside transcription, the same
\* server process can still take up an unrelated request that waits for it.
C8_TranscriptionDoesNotStallOthers ==
    \A r, o \in Reqs :
        (IsAudio(r) /\ rpc[r] = "transcribe" /\ o # r
            /\ rin[o].worker = rin[r].worker /\ rpc[o] = "pending") =>
            ENABLED EnterRequest(o)

====
